---- MODULE Spec2Model ----
(***************************************************************************)
(* activepipe: the active-learning controller (src/activepipe.py), the two *)
(* interactive query loops (src/visualization.py), the console oracles     *)
(* that answer them (src/main.py), the counts a fit of the classifier      *)
(* leaves (src/em_bayes.py), the session file, and Corpus.split as         *)
(* src/test_corpus.py calls it.                                            *)
(*                                                                         *)
(* Python values are records [t, s, n]: t is the Python type, s the value  *)
(* of a str, n the value of an int.  Python indices are 0-based; sequences *)
(* here are 1-based, PyIndex converts.                                     *)
(***************************************************************************)
EXTENDS Integers, Sequences, FiniteSets, TLC

VARIABLES
    pc,               \* position of the running driver
    emulate,          \* ActivePipeline.emulate
    unlabeled_corpus, \* the unlabeled pool: rows [instance, targets, representation]
    user_corpus,      \* the labeled partition filled by instance_bootstrap
    user_vectors,     \* session state: vectors confirmed by the oracle
    user_targets,     \* session state: their labels
    new_instances,    \* activepipe.new_instances
    fit_X,            \* rows the classifier was last fitted on
    fit_y,            \* labels the classifier was last fitted on
    train_runs,       \* completed calls of _train
    em_runs,          \* completed calls of _expectation_maximization
    user_features,    \* per (class, feature) boost factor
    max_iterations,   \* the driver's max_iterations argument
    it,               \* instance_bootstrap: it
    result,           \* the driver's result counter
    new_index,        \* instance_bootstrap: new_index
    classes_shown,    \* the candidate list handed to the oracle
    class_number,     \* feature_bootstrap: class_number
    feature_numbers,  \* feature_bootstrap: feature_numbers (after emulation)
    e_prediction,     \* feature_bootstrap: e_prediction
    ret,              \* the driver's return value, [done, v]
    hist,             \* observations of the run, see HistInit
    params,           \* what the last fit left in the classifier
    filename,         \* ActivePipeline.filename, '' when no session is named
    files,            \* the session files on disk, by name
    call,             \* the last controller operation: its arguments and result
    em                \* SemisupervisedNB.fit: its locals, see NoEM

vars == << pc, emulate, unlabeled_corpus, user_corpus, user_vectors,
           user_targets, new_instances, fit_X, fit_y, train_runs, em_runs,
           user_features, max_iterations, it, result, new_index,
           classes_shown, class_number, feature_numbers, e_prediction, ret,
           hist, params, filename, files, call, em >>

\* what the query loops never touch: the session files, the record of the
\* last controller operation and the locals of SemisupervisedNB.fit
store_vars == << filename, files, call, em >>

----------------------------------------------------------------------------
(* Bounds of the model *)

\* largest unlabeled pool the model starts with
MaxPool == 2
\* largest max_iterations argument tried
MaxBudget == 1
\* oracle answers of 'train' allowed in one run
MaxTrain == 1
\* rounds of the feature loop explored
MaxCycles == 3
\* iterations of ActivePipeline.bootstrap explored
MaxSession == 2
\* controller operations called one after the other in one run
MaxCalls == 4
\* longest class list _most_probable_classes is applied to
MaxClasses == 3
\* largest score in a row of predict_log_proba
MaxScore == 2
\* largest config['number_of_options'] it is applied with
MaxOptions == 3
\* longest X and y fit is called with
MaxRows == 2
\* largest n_iter SemisupervisedNB is constructed with
MaxIter == 2
\* most unlabeled samples SemisupervisedNB.fit is called with
MaxUnlabeled == 1
\* the label matrix of SemisupervisedNB.fit holds multiples of 1/Precision
Precision == 4
\* largest corpus split is applied to
MaxCorpus == 3
\* longest list of partition sizes
MaxParts == 2
\* config['number_of_options']: classes shortlisted for the oracle
number_of_options == 1
\* config['number_of_features']: features shown per query
number_of_features == 2
\* config['feature_boost']: the factor a confirmed feature is boosted by
feature_boost == 2

----------------------------------------------------------------------------
(* Python values *)

PyStr(s) == [t |-> "str", s |-> s, n |-> 0]
PyInt(n) == [t |-> "int", s |-> "", n |-> n]
PyNone == [t |-> "None", s |-> "", n |-> 0]
PyFalse == [t |-> "bool", s |-> "", n |-> 0]
PyTrue == [t |-> "bool", s |-> "", n |-> 1]

\* Python truth value of v: None, False, 0 and '' are false
Truthy(v) ==
    CASE v.t = "None" -> FALSE
      [] v.t = "bool" -> v.n # 0
      [] v.t = "int" -> v.n # 0
      [] OTHER -> v.s # ""

\* seq[i] of Python raises IndexError unless -len <= i < len
PyIndexOK(seq, i) == -Len(seq) <= i /\ i < Len(seq)
PyIndex(seq, i) == IF i >= 0 THEN seq[i + 1] ELSE seq[Len(seq) + i + 1]

\* int(line): the lines int() accepts, with their values
IntOf == [l \in {"0", "1", "2", "9", "-1"} |->
            CASE l = "0" -> 0
              [] l = "1" -> 1
              [] l = "2" -> 2
              [] l = "9" -> 9
              [] l = "-1" -> -1]
IsIntLine(line) == line \in DOMAIN IntOf

\* an optional integer argument: None, or an int
NoBudget == [given |-> FALSE, v |-> 0]
Budget(n) == [given |-> TRUE, v |-> n]
\* Python truth value of the argument: None and 0 are false
BudgetTruthy(mi) == mi.given /\ mi.v # 0

\* s without its i-th element (1-based)
RemoveAt(s, i) == [j \in 1..(Len(s) - 1) |-> IF j < i THEN s[j] ELSE s[j + 1]]

----------------------------------------------------------------------------
(* Data the controller is constructed with *)

\* classifier.classes_.tolist()
classes == << "A", "B" >>

\* the bulk training corpus
training_vectors == << <<2, 1, 0>>, <<0, 1, 2>> >>
training_target == << PyStr("A"), PyStr("B") >>

\* vocabulary size F
NumFeatures == Len(training_vectors[1])

\* activepipe.feature_corpus[class][feature] == 1: the features emulation confirms
feature_corpus == << <<1, 0, 0>>, <<0, 0, 0>> >>

\* the rows an unlabeled pool is drawn from
PoolRow(i, targets) ==
    [instance |-> IF i = 1 THEN <<1, 0, 0>> ELSE IF i = 2 THEN <<0, 0, 1>> ELSE <<1, 1, i>>,
     targets |-> targets,
     representation |-> i]

TargetLists == { << >>, << PyStr("A") >> }

Pools == UNION { [1..n -> {PoolRow(i, t) : i \in 1..MaxPool, t \in TargetLists}]
                 : n \in 0..MaxPool }

\* pools whose rows are distinct instances, in corpus order
InitialPools == { p \in Pools : \A i \in 1..Len(p) : p[i].representation = i }

----------------------------------------------------------------------------
(* The classifier's fit (src/em_bayes.py, BaseDiscreteNB) *)

\* sum of the elements of a sequence of numbers
RECURSIVE SumSeq(_)
SumSeq(s) == IF s = << >> THEN 0 ELSE Head(s) + SumSeq(Tail(s))

\* _label_1ofK: labelbin.classes_, the distinct labels of y
_label_1ofK(y) == { y[i] : i \in 1..Len(y) }

\* (Y.T * X)[c][f]: occurrences of feature f in the first i rows, counting
\* the rows labeled c
RECURSIVE DotColumn(_, _, _, _, _)
DotColumn(X, y, c, f, i) ==
    IF i = 0 THEN 0
    ELSE DotColumn(X, y, c, f, i - 1) + (IF y[i] = c THEN X[i][f] ELSE 0)

\* _count(X, Y): N_c_i = Y.T * X and N_c, its row sums
_count(X, y) ==
    LET N_c_i == [c \in _label_1ofK(y) |->
                    [f \in 1..NumFeatures |-> DotColumn(X, y, c, f, Len(X))]]
    IN  [N_c_i |-> N_c_i, N_c |-> [c \in _label_1ofK(y) |-> SumSeq(N_c_i[c])]]

\* a classifier no fit has run on
Unfitted == [_classes |-> {}, y_freq |-> << >>, N_c |-> << >>, N_c_i |-> << >>]

\* a fit that adds its counts to those self already holds
_fit1ofKAccumulating(self, X, y) ==
    LET cs == _label_1ofK(y) \cup self._classes
        old(c, g) == IF c \in self._classes THEN g[c] ELSE 0
        new(c, g) == IF c \in _label_1ofK(y) THEN g[c] ELSE 0
    IN  [_classes |-> cs,
         y_freq |-> [c \in cs |-> old(c, self.y_freq)
                                   + Cardinality({ i \in 1..Len(y) : y[i] = c })],
         N_c |-> [c \in cs |-> old(c, self.N_c) + new(c, _count(X, y).N_c)],
         N_c_i |-> [c \in cs |-> [f \in 1..NumFeatures |->
                        (IF c \in self._classes THEN self.N_c_i[c][f] ELSE 0)
                        + (IF c \in _label_1ofK(y) THEN _count(X, y).N_c_i[c][f] ELSE 0)]]]

\* fit and _fit1ofK on a classifier self: the label set, the class
\* frequencies y_freq and the counts N_c, N_c_i, which class_log_prior_ and
\* feature_log_prob_ are computed from; nothing of self is read
_fit1ofK(self, X, y) ==
    [_classes |-> _label_1ofK(y),
     y_freq |-> [c \in _label_1ofK(y) |-> Cardinality({ i \in 1..Len(y) : y[i] = c })],
     N_c |-> _count(X, y).N_c,
     N_c_i |-> _count(X, y).N_c_i]

----------------------------------------------------------------------------
(* The session file (pickle) *)

\* names a session file may have
SessionFiles == { "s" }

\* a name with no file behind it
NoFile == [count |-> -1, items |-> << >>]

\* pickle.dump((vectors, targets), f): the two lists written one after the
\* other, behind the length of the first
pickle_dump(to_save) ==
    [count |-> Len(to_save[1]), items |-> to_save[1] \o to_save[2]]

\* pickle.load(f): the tuple read back
pickle_load(data) ==
    << SubSeq(data.items, 1, data.count),
       SubSeq(data.items, data.count + 1, Len(data.items)) >>

----------------------------------------------------------------------------
(* Corpus (the store collaborator) *)

\* len(corpus)
CorpusLen(corpus) == Len(corpus)

\* corpus.primary_targets[index]: the first target, None for an unlabeled row
primary_target(corpus, index) ==
    IF corpus[index + 1].targets = << >> THEN PyNone
    ELSE Head(corpus[index + 1].targets)

\* corpus.pop_instance(index): the corpus without that row
pop_instance(corpus, index) == RemoveAt(corpus, index + 1)

\* corpus.add_instance(instance, targets, representation)
add_instance(corpus, instance, targets, representation) ==
    Append(corpus, [instance |-> instance, targets |-> targets,
                    representation |-> representation])

----------------------------------------------------------------------------
(* ActivePipeline (src/activepipe.py) *)

\* a fit on the bulk corpus alone
TrainRowsBulkOnly(vectors) == training_vectors

\* _train: the rows and the labels handed to pipeline.fit
TrainRows(vectors) == training_vectors \o vectors
TrainLabels(targets) == training_target \o targets

\* _train with the session state (vectors, targets): a full refit
_train(vectors, targets) ==
    /\ fit_X' = TrainRows(vectors)
    /\ fit_y' = TrainLabels(targets)
    /\ params' = _fit1ofK(params, TrainRows(vectors), TrainLabels(targets))
    /\ train_runs' = train_runs + 1

\* _expectation_maximization: the EM refit forced by a 'train' answer
_expectation_maximization == em_runs' = em_runs + 1

\* the new vector put in front of the session
SessionVectorsPrepended(vectors, instance) == << instance >> \o vectors

\* _process_prediction: the session state after the append
SessionVectors(vectors, instance) == Append(vectors, instance)
SessionTargets(targets, prediction) == Append(targets, prediction)

\* _process_prediction: its return value
ProcessPredictionResult == TRUE

\* _process_prediction(instance, prediction): append, retrain, return True
_process_prediction(instance, prediction, h) ==
    /\ user_vectors' = SessionVectors(user_vectors, instance)
    /\ user_targets' = SessionTargets(user_targets, prediction)
    /\ _train(user_vectors', user_targets')
    /\ hist' = [h EXCEPT !.processed = ProcessPredictionResult, !.stale = FALSE]

\* get_next_instance: choice(self.unlabeled_corpus), the 1-based position of
\* a row of the pool; choice raises IndexError on an empty pool and None
\* (position 0 here) is returned
get_next_instance(corpus) ==
    IF CorpusLen(corpus) = 0 THEN {0} ELSE 1..CorpusLen(corpus)

\* get_next_instance as instance_bootstrap uses it: the index of a uniformly
\* chosen row of the unlabeled pool
get_next_index(corpus) == 0..(CorpusLen(corpus) - 1)

\* indexes of v in ascending order of value (numpy argsort), as 0-based indices
Perms(n) == { p \in [1..n -> 1..n] : \A i, j \in 1..n : i # j => p[i] # p[j] }
argsort(v) ==
    LET p == CHOOSE q \in Perms(Len(v)) :
                 \A i, j \in 1..Len(v) :
                     i < j => \/ v[q[i]] < v[q[j]]
                              \/ (v[q[i]] = v[q[j]] /\ q[i] < q[j])
    IN  [i \in 1..Len(v) |-> p[i] - 1]

Reverse(s) == [i \in 1..Len(s) |-> s[Len(s) + 1 - i]]
Take(s, k) == SubSeq(s, 1, IF k < Len(s) THEN k ELSE Len(s))

\* _most_probable_classes on a controller whose self.classes is cls and
\* whose config['number_of_options'] is k: the k classes at the end of the
\* argsort, last first, then the last class of the list
MostProbableOf(cls, predicted_classes, k) ==
    LET indexes == Take(Reverse(argsort(predicted_classes)), k)
    IN  [i \in 1..Len(indexes) |-> PyIndex(cls, indexes[i])]
        \o << PyIndex(cls, -1) >>

\* _most_probable_classes(predicted_classes): the number_of_options classes
\* of highest score, then the last class
_most_probable_classes(predicted_classes) ==
    MostProbableOf(classes, predicted_classes, number_of_options)

\* the score rows predict_log_proba is observed to return in the model
ScoreRows == [1..Len(classes) -> {0, 1}]

----------------------------------------------------------------------------
(* The console oracles (src/main.py) *)

\* what the human may type at the instance prompt and the class prompt
Lines == {"0", "9", "", "stop", "train"}

\* get_class_for_instance(instance, classes) when the human types line
get_class_for_instance(shown, line) ==
    IF IsIntLine(line)
    THEN IF PyIndexOK(shown, IntOf[line])
         THEN PyStr(PyIndex(shown, IntOf[line]))
         ELSE PyInt(IntOf[line])
    ELSE PyStr(line)

\* the answers the instance loop is specified to understand
LineKind(shown, line) ==
    CASE line = "stop" -> "stop"
      [] line = "train" -> "train"
      [] IsIntLine(line) /\ PyIndexOK(shown, IntOf[line]) -> "label"
      [] OTHER -> "invalid"

----------------------------------------------------------------------------
(* Observations of a run: they record what happened, the program never     *)
(* reads them.                                                             *)

Snapshot ==
    [pool |-> unlabeled_corpus, user |-> user_corpus, vectors |-> user_vectors,
     targets |-> user_targets, result |-> result, runs |-> train_runs,
     ems |-> em_runs, fx |-> fit_X, fy |-> fit_y]

HistInit ==
    [start |-> Snapshot,   \* the state when the driver was called
     before |-> Snapshot,  \* the state when the last query was issued
     asked |-> 0,          \* queries issued to the oracle
     answers |-> 0,        \* answers received
     first |-> "",         \* kind of the first answer
     last |-> "",          \* kind of the last answer
     moved |-> 0,          \* rows moved out of the pool
     stale |-> FALSE,      \* a label was recorded and no retrain has run since
     stale_query |-> FALSE,\* a query was issued while stale
     empty_query |-> FALSE,\* a query was issued on an empty pool
     cycles |-> 0,         \* executions of the loop body
     recorded |-> 0,       \* calls of handle_feature_prediction
     confirmed |-> 0,      \* confirmed features passed to it, in total
     subset |-> TRUE,      \* every call had confirmed within candidates
     value |-> PyNone,     \* the prediction the last answer gave
     processed |-> FALSE,  \* what the last _process_prediction returned
     before_recorded |-> 0, \* calls of handle_feature_prediction before the last query
     calls |-> 0,          \* controller operations called directly
     offered |-> << >>,    \* what get_next_features returned in this round
     offered_class |-> -1, \* the class it was called for
     recorded_class |-> -1, \* the class of the last handle_feature_prediction
     candidates |-> << >>, \* the candidates passed to it
     confirmed_list |-> << >>, \* the confirmed features passed to it
     saved |-> [f \in SessionFiles |-> << >>]] \* the session last saved, by file

\* the loop body is entered
Begun(h) ==
    [h EXCEPT !.cycles = @ + 1, !.before = Snapshot,
              !.before_recorded = h.recorded]

\* the oracle is asked a question
Asked(h) ==
    [h EXCEPT !.asked = @ + 1, !.before = Snapshot,
              !.before_recorded = h.recorded,
              !.stale_query = @ \/ h.stale]

\* the oracle is asked about a row of the pool
AskedOnPool(h) ==
    [Asked(h) EXCEPT !.empty_query = @ \/ unlabeled_corpus = << >>]

\* the oracle gives an answer of this kind
Answered(h, kind, value) ==
    [h EXCEPT !.answers = @ + 1, !.last = kind, !.value = value,
              !.first = IF h.answers = 0 THEN kind ELSE @]

\* the record of a controller operation: its name, arguments and return
\* value, and the state it was called in
Called(op, args, value) ==
    [op |-> op, args |-> args, ret |-> value,
     pre |-> [op |-> call.op, vectors |-> user_vectors, targets |-> user_targets,
              files |-> files, pool |-> unlabeled_corpus, params |-> params,
              fx |-> fit_X, fy |-> fit_y]]

\* no controller operation has been called yet
NoCall == [op |-> "", args |-> << >>, ret |-> PyNone, pre |-> << >>]

\* SemisupervisedNB.fit is not running: its label matrix Y, its snapshot
\* old_coef, old_intercept (held as the classifier they were copied from)
\* and its loop index i; and what it has done: the calls of _fit1ofK and of
\* predict_proba, how it ended and, for every iteration, the snapshot, the
\* label matrix and the classifier of its convergence check
NoEM == [Y |-> << >>, old |-> Unfitted, i |-> 0, fits |-> 0, esteps |-> 0,
         outcome |-> "", trace |-> << >>]

----------------------------------------------------------------------------
(* instance_bootstrap (src/visualization.py) *)

\* the while condition
IBLoopCond(mi, i, corpus) ==
    (~BudgetTruthy(mi) \/ i < mi.v) /\ CorpusLen(corpus) # 0

\* targets + [prediction]: the answer put last
NewTargetsAppended(prediction, targets) == targets \o << prediction >>

\* [prediction] + targets
NewTargets(prediction, targets) == << prediction >> \o targets

\* result += 1
IBCount(r) == r + 1

\* the comparison written against the token the prompt advertises
IBIsStopUpper(prediction) == prediction = PyStr("STOP")

\* prediction == 'stop'
IBIsStop(prediction) == prediction = PyStr("stop")

\* the 'train' branch left out
IBIsTrainNever(prediction) == FALSE

\* prediction == 'train'
IBIsTrain(prediction) == prediction = PyStr("train")

\* emulation answers for a row that carries a target
Emulated(corpus, index) == emulate /\ Truthy(primary_target(corpus, index))

\* from `if prediction == 'stop'` to the end of the loop body
IBProcess(index, prediction, h) ==
    IF IBIsStop(prediction)
    THEN /\ pc' = "done"
         /\ ret' = [done |-> TRUE, v |-> result]
         /\ hist' = h
         /\ UNCHANGED << unlabeled_corpus, user_corpus, new_instances, fit_X,
                         fit_y, params, train_runs, em_runs, result >>
    ELSE IF IBIsTrain(prediction)
    THEN /\ _train(user_vectors, user_targets)
         /\ _expectation_maximization
         /\ pc' = "ib_loop"
         /\ hist' = [h EXCEPT !.stale = FALSE]
         /\ UNCHANGED << unlabeled_corpus, user_corpus, new_instances, result,
                         ret >>
    ELSE LET row == unlabeled_corpus[index + 1]
         IN  /\ new_instances' = new_instances + 1
             /\ result' = IBCount(result)
             /\ unlabeled_corpus' = pop_instance(unlabeled_corpus, index)
             /\ user_corpus' = add_instance(user_corpus, row.instance,
                                     NewTargets(prediction, row.targets),
                                     row.representation)
             /\ pc' = "ib_loop"
             /\ hist' = [h EXCEPT !.moved = @ + 1,
                                  !.stale = @ \/ h.last = "label"]
             /\ UNCHANGED << fit_X, fit_y, params, train_runs, em_runs, ret >>

\* the call: instance_bootstrap(activepipe, get_class_for_instance, mi)
InstanceBootstrap(mi) ==
    /\ pc = "idle"
    /\ pc' = "ib_loop"
    /\ max_iterations' = mi
    /\ it' = 0
    /\ result' = 0
    /\ UNCHANGED store_vars
    /\ UNCHANGED << emulate, unlabeled_corpus, user_corpus, user_vectors,
                    user_targets, new_instances, fit_X, fit_y, params, train_runs,
                    em_runs, user_features, new_index, classes_shown,
                    class_number, feature_numbers, e_prediction, ret, hist >>

\* one pass from the loop test to the oracle's prompt; a row that emulation
\* answers is processed to the end of the loop body
IBIterate ==
    /\ pc = "ib_loop"
    /\ IBLoopCond(max_iterations, it, unlabeled_corpus)
    /\ it' = it + 1
    /\ \E index \in get_next_index(unlabeled_corpus) :
         /\ new_index' = index
         /\ IF Emulated(unlabeled_corpus, index)
            THEN /\ IBProcess(index, primary_target(unlabeled_corpus, index),
                              [Begun(hist) EXCEPT
                                  !.last = "emulated",
                                  !.value = primary_target(unlabeled_corpus, index)])
                 /\ UNCHANGED classes_shown
            ELSE /\ \E scores \in ScoreRows :
                      classes_shown' = _most_probable_classes(scores)
                 /\ pc' = "ib_ask"
                 /\ hist' = AskedOnPool(Begun(hist))
                 /\ UNCHANGED << unlabeled_corpus, user_corpus, new_instances,
                                 fit_X, fit_y, params, train_runs, em_runs, result, ret >>
    /\ UNCHANGED store_vars
    /\ UNCHANGED << emulate, user_vectors, user_targets, user_features,
                    max_iterations, class_number, feature_numbers, e_prediction >>

\* the oracle answers the prompt; the rest of the loop body runs
IBAnswer ==
    /\ pc = "ib_ask"
    /\ \E line \in Lines :
         /\ line = "train" => em_runs < MaxTrain
         /\ IBProcess(new_index, get_class_for_instance(classes_shown, line),
                      Answered(hist, LineKind(classes_shown, line),
                               get_class_for_instance(classes_shown, line)))
    /\ UNCHANGED store_vars
    /\ UNCHANGED << emulate, user_vectors, user_targets, user_features,
                    max_iterations, it, new_index, classes_shown, class_number,
                    feature_numbers, e_prediction >>

\* the while condition fails: return result
IBReturn ==
    /\ pc = "ib_loop"
    /\ ~IBLoopCond(max_iterations, it, unlabeled_corpus)
    /\ pc' = "done"
    /\ ret' = [done |-> TRUE, v |-> result]
    /\ UNCHANGED store_vars
    /\ UNCHANGED << emulate, unlabeled_corpus, user_corpus, user_vectors,
                    user_targets, new_instances, fit_X, fit_y, params, train_runs,
                    em_runs, user_features, max_iterations, it, result,
                    new_index, classes_shown, class_number, feature_numbers,
                    e_prediction, hist >>

----------------------------------------------------------------------------
(* The feature side of the controller *)

\* get_class_options(): the classes the oracle chooses among
get_class_options == classes

\* classes.index(class_name), 0-based
ClassIndex(class_name) == (CHOOSE i \in 1..Len(classes) : classes[i] = class_name) - 1

\* training_corpus.get_feature_name(pos)
get_feature_name(pos) ==
    IF pos = 0 THEN "f0" ELSE IF pos = 1 THEN "f1" ELSE IF pos = 2 THEN "f2" ELSE "fn"

RECURSIVE Pow(_, _)
Pow(b, k) == IF k = 0 THEN 1 ELSE b * Pow(b, k - 1)

\* N_ci of the last fit: occurrences of feature f in the rows of class c
RECURSIVE FeatureCount(_, _, _)
FeatureCount(c, f, i) ==
    IF i = 0 THEN 0
    ELSE FeatureCount(c, f, i - 1)
         + (IF fit_y[i] = PyStr(classes[c + 1]) THEN fit_X[i][f + 1] ELSE 0)

\* what feature_log_prob_[c][f] is monotone in: the smoothed count, boosted
FeatureScore(c, f) ==
    (FeatureCount(c, f, Len(fit_X)) + 1) * Pow(feature_boost, user_features[c + 1][f + 1])

\* get_next_features(class_number): the number_of_features features of the
\* class ranked by descending feature_log_prob_ (ties in any order)
get_next_features(c) ==
    { Take([i \in 1..NumFeatures |-> q[i] - 1], number_of_features) :
        q \in { r \in Perms(NumFeatures) :
                  \A i, j \in 1..NumFeatures :
                      i < j => FeatureScore(c, r[i] - 1) >= FeatureScore(c, r[j] - 1) } }

\* occurrences of x in s
Occurrences(s, x) == Cardinality({ i \in 1..Len(s) : s[i] = x })

\* handle_feature_prediction(class_number, candidates, confirmed): boost the
\* confirmed features of the class, then retrain
handle_feature_prediction(c, candidates, confirmed, h) ==
    /\ user_features' =
         [user_features EXCEPT ![c + 1] =
            [f \in 1..NumFeatures |-> @[f] + Occurrences(confirmed, f - 1)]]
    /\ _train(user_vectors, user_targets)
    /\ hist' = [h EXCEPT !.recorded = @ + 1,
                         !.confirmed = @ + Len(confirmed),
                         !.recorded_class = c,
                         !.candidates = candidates,
                         !.confirmed_list = confirmed,
                         !.stale = FALSE,
                         !.subset = @ /\ \A i \in 1..Len(confirmed) :
                                       \E j \in 1..Len(candidates) :
                                           candidates[j] = confirmed[i]]

----------------------------------------------------------------------------
(* The console oracles of the feature loop (src/main.py) *)

\* get_class(classes_list) when the human types line
get_class(classes_list, line) ==
    IF ~IsIntLine(line)
    THEN IF line = "stop" \/ line = "train" THEN PyStr(line) ELSE PyNone
    ELSE IF IntOf[line] < 0 \/ IntOf[line] >= Len(classes_list)
         THEN PyFalse
         ELSE PyStr(classes_list[IntOf[line] + 1])

\* what the human may type at the feature prompt, split at blanks
FeatureLines ==
    { << >>, << "0" >>, << "1", "0" >>, << "9" >>, << "foo" >>, << "stop" >>,
      << "STOP" >>, << "train" >> }

\* str.lower on the lines of the model
Lower(word) == IF word = "STOP" THEN "stop" ELSE word

\* the for loop of get_labeled_features: a word int() rejects is passed
\* over, an index outside features raises IndexError
RECURSIVE CollectFeatures(_, _)
CollectFeatures(indexes, features) ==
    IF indexes = << >> THEN [raised |-> FALSE, l |-> << >>]
    ELSE IF ~IsIntLine(Head(indexes))
    THEN CollectFeatures(Tail(indexes), features)
    ELSE IF ~PyIndexOK(features, IntOf[Head(indexes)])
    THEN [raised |-> TRUE, l |-> << >>]
    ELSE LET rest == CollectFeatures(Tail(indexes), features)
         IN  [raised |-> rest.raised,
              l |-> IF rest.raised THEN << >>
                    ELSE << PyIndex(features, IntOf[Head(indexes)]) >> \o rest.l]

\* get_labeled_features(class_name, features) when the human types line:
\* 'stop', a list of feature names, or an IndexError
get_labeled_features(features, line) ==
    IF Len(line) = 1 /\ Lower(line[1]) = "stop"
    THEN [t |-> "str", s |-> "stop", l |-> << >>]
    ELSE LET r == CollectFeatures(line, features)
         IN  IF r.raised THEN [t |-> "raise", s |-> "IndexError", l |-> << >>]
             ELSE [t |-> "list", s |-> "", l |-> r.l]

\* the answers the feature loop is specified to understand: 'stop', 'train',
\* a selection of the features shown, and everything else, which is invalid
FeatureLineKind(features, line) ==
    CASE Len(line) = 1 /\ Lower(line[1]) = "stop" -> "stop"
      [] line = << "train" >> -> "train"
      [] /\ line # << >>
         /\ \A i \in 1..Len(line) :
              /\ IsIntLine(line[i])
              /\ IntOf[line[i]] >= 0
              /\ IntOf[line[i]] < Len(features) -> "label"
      [] OTHER -> "invalid"

ClassLineKind(line) ==
    CASE line = "stop" -> "stop"
      [] line = "train" -> "train"
      [] IsIntLine(line) /\ IntOf[line] >= 0 /\ IntOf[line] < Len(classes) -> "label"
      [] OTHER -> "invalid"

----------------------------------------------------------------------------
(* feature_bootstrap (src/visualization.py) *)

\* the while condition
FBLoopCond(mi, r) == ~BudgetTruthy(mi) \/ r < mi.v

\* e_prediction: the candidates the feature corpus marks for the class
EmulatedFeatures(c, numbers) ==
    SelectSeq(numbers, LAMBDA f : feature_corpus[c + 1][f + 1] = 1)

\* feature_numbers once the emulated ones are taken out
RemainingFeatures(numbers, emulated) ==
    SelectSeq(numbers, LAMBDA f : \A i \in 1..Len(emulated) : emulated[i] # f)

\* feature_names
FeatureNames(numbers) == [i \in 1..Len(numbers) |-> get_feature_name(numbers[i])]

\* feature_names.index(f), 1-based here
NameIndex(names, f) == CHOOSE i \in 1..Len(names) :
                          names[i] = f /\ \A j \in 1..(i - 1) : names[j] # f

\* [feature_numbers[feature_names.index(f)] for f in prediction]
FeaturesNamed(numbers, prediction) ==
    [i \in 1..Len(prediction) |-> numbers[NameIndex(FeatureNames(numbers), prediction[i])]]

\* result += len(prediction): the emulated features left out of the count
FBCountTyped(r, prediction, emulated) == r + Len(prediction)

\* result += len(prediction + e_prediction)
FBCount(r, prediction, emulated) == r + Len(prediction \o emulated)

\* get_next_features returned numbers for class c
Offered(h, c, numbers) == [h EXCEPT !.offered = numbers, !.offered_class = c]

\* candidates without the emulated features
FBCandidatesShown(numbers, emulated) == numbers

\* the candidates and the confirmed features handed to the controller
FBCandidates(numbers, emulated) == numbers \o emulated
FBConfirmed(prediction, emulated) == prediction \o emulated

\* `continue`: back to the loop test with nothing recorded
FBContinue(h) ==
    /\ pc' = "fb_loop"
    /\ hist' = h
    /\ UNCHANGED << user_features, fit_X, fit_y, params, train_runs, em_runs, result, ret >>

\* `break`: return result
FBBreak(h) ==
    /\ pc' = "done"
    /\ ret' = [done |-> TRUE, v |-> result]
    /\ hist' = h
    /\ UNCHANGED << user_features, fit_X, fit_y, params, train_runs, em_runs, result >>

\* the 'train' branch
FBTrain(h) ==
    /\ _train(user_vectors, user_targets)
    /\ _expectation_maximization
    /\ pc' = "fb_loop"
    /\ hist' = [h EXCEPT !.stale = FALSE]
    /\ UNCHANGED << user_features, result, ret >>

\* the call of handle_feature_prediction and the count that ends the body
FBRecord(c, numbers, prediction, emulated, h) ==
    /\ handle_feature_prediction(c, FBCandidates(numbers, emulated),
                                 FBConfirmed(prediction, emulated), h)
    /\ result' = FBCount(result, prediction, emulated)
    /\ pc' = "fb_loop"
    /\ UNCHANGED << em_runs, ret >>

\* the call: feature_bootstrap(activepipe, get_class, get_labeled_features, mi)
FeatureBootstrap(mi) ==
    /\ pc = "idle"
    /\ pc' = "fb_loop"
    /\ max_iterations' = mi
    /\ result' = 0
    /\ UNCHANGED store_vars
    /\ UNCHANGED << emulate, unlabeled_corpus, user_corpus, user_vectors,
                    user_targets, new_instances, fit_X, fit_y, params, train_runs,
                    em_runs, user_features, it, new_index, classes_shown,
                    class_number, feature_numbers, e_prediction, ret, hist >>

\* the loop test passes and the oracle is asked for a class
FBQuery ==
    /\ pc = "fb_loop"
    /\ FBLoopCond(max_iterations, result)
    /\ hist.cycles < MaxCycles
    /\ pc' = "fb_class"
    /\ classes_shown' = get_class_options
    /\ hist' = Asked(Begun(hist))
    /\ UNCHANGED store_vars
    /\ UNCHANGED << emulate, unlabeled_corpus, user_corpus, user_vectors,
                    user_targets, new_instances, fit_X, fit_y, params, train_runs,
                    em_runs, user_features, max_iterations, it, result,
                    new_index, class_number, feature_numbers, e_prediction, ret >>

\* the oracle answers the class prompt; the body runs up to the feature
\* prompt, or to its end when no candidate is left to show
FBClassAnswer ==
    /\ pc = "fb_class"
    /\ \E line \in Lines :
         LET class_name == get_class(classes_shown, line)
             h == Answered(hist, ClassLineKind(line), class_name)
         IN  /\ line = "train" => em_runs < MaxTrain
             /\ IF ~Truthy(class_name)
                THEN /\ FBContinue(h)
                     /\ UNCHANGED << class_number, feature_numbers, e_prediction >>
                ELSE IF class_name = PyStr("stop")
                THEN /\ FBBreak(h)
                     /\ UNCHANGED << class_number, feature_numbers, e_prediction >>
                ELSE IF class_name = PyStr("train")
                THEN /\ FBTrain(h)
                     /\ UNCHANGED << class_number, feature_numbers, e_prediction >>
                ELSE \E numbers \in get_next_features(ClassIndex(class_name.s)) :
                       LET c == ClassIndex(class_name.s)
                           emulated == IF emulate THEN EmulatedFeatures(c, numbers)
                                       ELSE << >>
                           remaining == IF emulate
                                        THEN RemainingFeatures(numbers, emulated)
                                        ELSE numbers
                       IN  /\ class_number' = c
                           /\ feature_numbers' = remaining
                           /\ e_prediction' = emulated
                           /\ IF remaining # << >>
                              THEN /\ pc' = "fb_features"
                                   /\ hist' = Asked(Offered(h, c, numbers))
                                   /\ UNCHANGED << user_features, fit_X, fit_y, params,
                                                   train_runs, em_runs, result, ret >>
                              ELSE FBRecord(c, remaining, << >>, emulated,
                                            Offered(h, c, numbers))
    /\ UNCHANGED store_vars
    /\ UNCHANGED << emulate, unlabeled_corpus, user_corpus, user_vectors,
                    user_targets, new_instances, max_iterations, it, new_index,
                    classes_shown >>

\* the oracle answers the feature prompt; the rest of the body runs.  The
\* oracle is get_labeled_features of main.py, or one that answers 'train'
FBFeatureAnswer ==
    /\ pc = "fb_features"
    /\ \E line \in FeatureLines :
         LET names == FeatureNames(feature_numbers)
             answer == IF line = << "train" >>
                       THEN [t |-> "str", s |-> "train", l |-> << >>]
                       ELSE get_labeled_features(names, line)
             h == Answered(hist, FeatureLineKind(names, line), PyNone)
         IN  /\ line = << "train" >> => em_runs < MaxTrain
             /\ IF answer.t = "raise"
                THEN /\ pc' = "raised"
                     /\ hist' = h
                     /\ UNCHANGED << user_features, fit_X, fit_y, params, train_runs,
                                     em_runs, result, ret >>
                ELSE IF answer.t = "list" /\ answer.l = << >> /\ e_prediction = << >>
                THEN FBContinue(h)
                ELSE IF answer.t = "str" /\ answer.s = "stop"
                THEN FBBreak(h)
                ELSE IF answer.t = "str" /\ answer.s = "train"
                THEN FBTrain(h)
                ELSE FBRecord(class_number, feature_numbers,
                              FeaturesNamed(feature_numbers, answer.l),
                              e_prediction, h)
    /\ UNCHANGED store_vars
    /\ UNCHANGED << emulate, unlabeled_corpus, user_corpus, user_vectors,
                    user_targets, new_instances, max_iterations, it, new_index,
                    classes_shown, class_number, feature_numbers, e_prediction >>

\* the while condition fails: return result
FBReturn ==
    /\ pc = "fb_loop"
    /\ ~FBLoopCond(max_iterations, result)
    /\ pc' = "done"
    /\ ret' = [done |-> TRUE, v |-> result]
    /\ UNCHANGED store_vars
    /\ UNCHANGED << emulate, unlabeled_corpus, user_corpus, user_vectors,
                    user_targets, new_instances, fit_X, fit_y, params, train_runs,
                    em_runs, user_features, max_iterations, it, result,
                    new_index, classes_shown, class_number, feature_numbers,
                    e_prediction, hist >>

----------------------------------------------------------------------------
(* ActivePipeline.bootstrap (src/activepipe.py) *)

\* 'target' in new_instance
HasTarget(row) == row.targets # << >>

\* the call: pipe.bootstrap(get_class_for_instance)
Bootstrap ==
    /\ pc = "idle"
    /\ pc' = "bs_loop"
    /\ UNCHANGED store_vars
    /\ UNCHANGED << emulate, unlabeled_corpus, user_corpus, user_vectors,
                    user_targets, new_instances, fit_X, fit_y, params, train_runs,
                    em_runs, user_features, max_iterations, it, result,
                    new_index, classes_shown, class_number, feature_numbers,
                    e_prediction, ret, hist >>

\* one pass from the top of the loop to the oracle's prompt.  None has no
\* 'question' and a question has no 'target': both raise TypeError
BSIterate ==
    /\ pc = "bs_loop"
    /\ hist.cycles < MaxSession
    /\ \E position \in get_next_instance(unlabeled_corpus) :
         IF \/ position = 0
            \/ (emulate /\ HasTarget(unlabeled_corpus[position]))
         THEN /\ pc' = "raised"
              /\ hist' = Begun(hist)
              /\ UNCHANGED << new_index, classes_shown >>
         ELSE /\ new_index' = position - 1
              /\ \E scores \in ScoreRows :
                   classes_shown' = _most_probable_classes(scores)
              /\ pc' = "bs_ask"
              /\ hist' = AskedOnPool(Begun(hist))
    /\ UNCHANGED store_vars
    /\ UNCHANGED << emulate, unlabeled_corpus, user_corpus, user_vectors,
                    user_targets, new_instances, fit_X, fit_y, params, train_runs,
                    em_runs, user_features, max_iterations, it, result,
                    class_number, feature_numbers, e_prediction, ret >>

\* the oracle answers the prompt; 'stop' ends the loop, anything else is
\* recorded as the label of the instance
BSAnswer ==
    /\ pc = "bs_ask"
    /\ \E line \in Lines :
         LET prediction == get_class_for_instance(classes_shown, line)
             h == Answered(hist, LineKind(classes_shown, line), prediction)
         IN  IF prediction = PyStr("stop")
             THEN /\ pc' = "done"
                  /\ ret' = [done |-> TRUE, v |-> 0]
                  /\ hist' = h
                  /\ UNCHANGED << user_vectors, user_targets, fit_X, fit_y, params,
                                  train_runs >>
             ELSE /\ _process_prediction(unlabeled_corpus[new_index + 1].instance,
                                         prediction, h)
                  /\ pc' = "bs_loop"
                  /\ UNCHANGED ret
    /\ UNCHANGED store_vars
    /\ UNCHANGED << emulate, unlabeled_corpus, user_corpus, new_instances,
                    em_runs, user_features, max_iterations, it, result,
                    new_index, classes_shown, class_number, feature_numbers,
                    e_prediction >>

----------------------------------------------------------------------------
(* The controller's operations, called one at a time (src/activepipe.py) *)

\* one more direct call is observed
Counted(h) == [h EXCEPT !.calls = @ + 1]

\* the guard written without the test of the session
SaveSessionRefusesUnnamed(vectors, name) == name = ""

\* save_session: `if not self.user_vectors or not filename: return False`
SaveSessionRefuses(vectors, name) == vectors = << >> \/ name = ""

\* save_session(name)
save_session(name) ==
    /\ pc = "idle"
    /\ hist.calls < MaxCalls
    /\ IF SaveSessionRefuses(user_vectors, name)
       THEN /\ call' = Called("save_session", << name >>, PyFalse)
            /\ hist' = Counted(hist)
            /\ UNCHANGED files
       ELSE /\ files' = [files EXCEPT
                           ![name] = pickle_dump(<< user_vectors, user_targets >>)]
            /\ call' = Called("save_session", << name >>, PyTrue)
            /\ hist' = [Counted(hist) EXCEPT
                           !.saved[name] = << user_vectors, user_targets >>]
    /\ UNCHANGED << pc, emulate, unlabeled_corpus, user_corpus, user_vectors,
                    user_targets, new_instances, fit_X, fit_y, params, train_runs,
                    em_runs, user_features, max_iterations, it, result,
                    new_index, classes_shown, class_number, feature_numbers,
                    e_prediction, ret, filename, em >>

\* a load that keeps the answers held before it
LoadedSessionMerged(vectors, targets, data) ==
    << vectors \o pickle_load(data)[1], targets \o pickle_load(data)[2] >>

\* load_session: `self.user_vectors, self.user_targets = pickle.load(f)`
LoadedSession(vectors, targets, data) == pickle_load(data)

\* load_session(): False without a session name, IOError when the named
\* file does not exist
load_session ==
    /\ pc = "idle"
    /\ hist.calls < MaxCalls
    /\ hist' = Counted(hist)
    /\ IF filename = ""
       THEN /\ call' = Called("load_session", << >>, PyFalse)
            /\ UNCHANGED << pc, user_vectors, user_targets >>
       ELSE IF files[filename] = NoFile
       THEN /\ call' = Called("load_session", << >>, PyNone)
            /\ pc' = "raised"
            /\ UNCHANGED << user_vectors, user_targets >>
       ELSE /\ user_vectors' =
                 LoadedSession(user_vectors, user_targets, files[filename])[1]
            /\ user_targets' =
                 LoadedSession(user_vectors, user_targets, files[filename])[2]
            /\ call' = Called("load_session", << >>, PyTrue)
            /\ UNCHANGED pc
    /\ UNCHANGED << emulate, unlabeled_corpus, user_corpus, new_instances,
                    fit_X, fit_y, params, train_runs, em_runs, user_features,
                    max_iterations, it, result, new_index, classes_shown,
                    class_number, feature_numbers, e_prediction, ret,
                    filename, files, em >>

\* the labels a caller records
SessionLabels == { PyStr(classes[1]) }

\* _process_prediction(instance, prediction) on a row of the pool
RecordLabel ==
    /\ pc = "idle"
    /\ hist.calls < MaxCalls
    /\ \E position \in 1..Len(unlabeled_corpus), prediction \in SessionLabels :
         /\ _process_prediction(unlabeled_corpus[position].instance, prediction,
                                Counted(hist))
         /\ call' = Called("_process_prediction",
                           << unlabeled_corpus[position].instance, prediction >>,
                           IF ProcessPredictionResult THEN PyTrue ELSE PyFalse)
    /\ UNCHANGED << pc, emulate, unlabeled_corpus, user_corpus, new_instances,
                    em_runs, user_features, max_iterations, it, result,
                    new_index, classes_shown, class_number, feature_numbers,
                    e_prediction, ret, filename, files, em >>

\* _train(): retrain
Retrain ==
    /\ pc = "idle"
    /\ hist.calls < MaxCalls
    /\ _train(user_vectors, user_targets)
    /\ call' = Called("_train", << >>, PyNone)
    /\ hist' = [Counted(hist) EXCEPT !.stale = FALSE]
    /\ UNCHANGED << pc, emulate, unlabeled_corpus, user_corpus, user_vectors,
                    user_targets, new_instances, em_runs, user_features,
                    max_iterations, it, result, new_index, classes_shown,
                    class_number, feature_numbers, e_prediction, ret,
                    filename, files, em >>

\* what get_next_instance returns: a row of the pool, by position, or None
ReturnedRow(position) ==
    IF position = 0 THEN PyNone ELSE [t |-> "row", s |-> "", n |-> position]

\* get_next_instance()
SelectNextInstance ==
    /\ pc = "idle"
    /\ hist.calls < MaxCalls
    /\ \E position \in get_next_instance(unlabeled_corpus) :
         call' = Called("get_next_instance", << >>, ReturnedRow(position))
    /\ hist' = Counted(hist)
    /\ UNCHANGED << pc, emulate, unlabeled_corpus, user_corpus, user_vectors,
                    user_targets, new_instances, fit_X, fit_y, params, train_runs,
                    em_runs, user_features, max_iterations, it, result,
                    new_index, classes_shown, class_number, feature_numbers,
                    e_prediction, ret, filename, files, em >>

----------------------------------------------------------------------------
(* The state after construction and the runs of a driver *)

\* the max_iterations arguments tried: None and 0..MaxBudget
Budgets == { NoBudget } \cup { Budget(n) : n \in 0..MaxBudget }

\* a labeled partition left by an earlier run
InitialUserCorpora ==
    { << >>,
      << [instance |-> <<0, 1, 0>>, targets |-> << PyStr("B") >>, representation |-> 0] >> }

\* a session loaded by load_session: (vectors, targets)
InitialSessions ==
    { << << >>, << >> >>, << << <<0, 2, 0>> >>, << PyStr("A") >> >> }

\* the session name a controller is constructed with, and the session an
\* earlier run saved under each file name (<< >> where no file exists)
Store(name, sessions) == [filename |-> name, sessions |-> sessions]

\* the files holding these sessions
FilesOf(sessions) ==
    [f \in SessionFiles |-> IF sessions[f] = << >> THEN NoFile
                            ELSE pickle_dump(sessions[f])]

\* the store a session came from: none for the empty session
StoresOf(sessions) ==
    { IF session[1] = << >>
      THEN Store("", [f \in SessionFiles |-> << >>])
      ELSE Store("s", [f \in SessionFiles |-> session])
      : session \in sessions }

\* the state after ActivePipeline.__init__: corpora loaded, session loaded
\* from the named file (or empty), the classifier fitted on both
ConstructedFrom(pools, corpora, stores, calls) ==
    \E store \in stores :
        /\ pc = "idle"
        /\ emulate \in BOOLEAN
        /\ unlabeled_corpus \in pools
        /\ user_corpus \in corpora
        /\ filename = store.filename
        /\ files = FilesOf(store.sessions)
        /\ user_vectors = IF filename = "" THEN << >>
                          ELSE pickle_load(files[filename])[1]
        /\ user_targets = IF filename = "" THEN << >>
                          ELSE pickle_load(files[filename])[2]
        /\ new_instances = 0
        /\ fit_X = TrainRows(user_vectors)
        /\ fit_y = TrainLabels(user_targets)
        /\ params = _fit1ofK(Unfitted, fit_X, fit_y)
        /\ train_runs = 0
        /\ em_runs = 0
        /\ user_features = [c \in 1..Len(classes) |-> [f \in 1..NumFeatures |-> 0]]
        /\ max_iterations = NoBudget
        /\ it = 0
        /\ result = 0
        /\ new_index = 0
        /\ classes_shown = << >>
        /\ class_number = 0
        /\ feature_numbers = << >>
        /\ e_prediction = << >>
        /\ ret = [done |-> FALSE, v |-> 0]
        /\ hist = [HistInit EXCEPT !.saved = store.sessions]
        /\ call \in calls
        /\ em = NoEM

\* constructed with the session file that holds one of the sessions
Constructed(pools, corpora, sessions) ==
    ConstructedFrom(pools, corpora, StoresOf(sessions), { NoCall })

Init == Constructed(InitialPools, InitialUserCorpora, InitialSessions)

\* a run of instance_bootstrap
NextInstance ==
    \/ \E mi \in Budgets : InstanceBootstrap(mi)
    \/ IBIterate
    \/ IBAnswer
    \/ IBReturn

\* a run of feature_bootstrap
NextFeature ==
    \/ \E mi \in Budgets : FeatureBootstrap(mi)
    \/ FBQuery
    \/ FBClassAnswer
    \/ FBFeatureAnswer
    \/ FBReturn

\* a run of ActivePipeline.bootstrap
NextBootstrap ==
    \/ Bootstrap
    \/ BSIterate
    \/ BSAnswer

Next == NextInstance \/ NextFeature \/ NextBootstrap

Spec == Init /\ [][Next]_vars

\* instance_bootstrap reads the session only through _train
InitInstance ==
    Constructed(InitialPools, InitialUserCorpora,
                { x \in InitialSessions : x[1] # << >> })

SpecInstance == InitInstance /\ [][NextInstance]_vars

\* the feature loop reads neither the pool nor the labeled partition
InitFeature ==
    Constructed({ p \in InitialPools : Len(p) = 0 }, { << >> }, InitialSessions)

SpecFeature == InitFeature /\ [][NextFeature]_vars

\* ActivePipeline.bootstrap never touches the labeled partition
InitBootstrap == Constructed(InitialPools, { << >> }, InitialSessions)

SpecBootstrap == InitBootstrap /\ [][NextBootstrap]_vars

\* the stores a controller used on its own is constructed with: no session
\* named, with or without a file on disk, or the file of an earlier session
ControllerStores ==
    { Store("", [f \in SessionFiles |-> << >>]) }
    \cup { Store(name, [f \in SessionFiles |-> session]) :
             name \in {"", "s"},
             session \in { x \in InitialSessions : x[1] # << >> } }

\* the pools it is constructed with: exhausted, or full and unlabeled
ControllerPools ==
    { p \in InitialPools :
        /\ Len(p) \in {0, MaxPool}
        /\ \A i \in 1..Len(p) : p[i].targets = << >> }

InitController ==
    /\ ConstructedFrom(ControllerPools, { << >> }, ControllerStores, { NoCall })
    /\ ~emulate

\* the controller's operations in any order
NextController ==
    \/ RecordLabel
    \/ Retrain
    \/ SelectNextInstance
    \/ \E name \in SessionFiles \cup {""} : save_session(name)
    \/ load_session

SpecController == InitController /\ [][NextController]_vars

\* one run: the operations that may follow construction without a reload,
\* and the controller's query loop; direct calls and loop iterations share
\* the budget MaxCalls
NextRun ==
    \/ RecordLabel
    \/ Retrain
    \/ \E name \in SessionFiles \cup {""} : save_session(name)
    \/ (hist.calls + hist.cycles < MaxCalls /\ Bootstrap)
    \/ (hist.calls + hist.cycles < MaxCalls /\ BSIterate)
    \/ BSAnswer

\* a run starts with one unlabeled row in the pool: the loop may draw it
\* again and again
InitRun ==
    /\ ConstructedFrom({ p \in InitialPools : Len(p) = 1 /\ p[1].targets = << >> },
                       { << >> }, ControllerStores, { NoCall })
    /\ ~emulate

SpecRun == InitRun /\ [][NextRun]_vars

----------------------------------------------------------------------------
(* _most_probable_classes applied to any class list, score row and k *)

\* the names classes are drawn from
ClassNames == << "A", "B", "C", "D", "E" >>

\* classifier.classes_.tolist(): the sorted class names
ClassLists == { SubSeq(ClassNames, 1, n) : n \in 1..MaxClasses }

\* an operation about to be applied to these arguments
Pending(op, args) == [op |-> op, args |-> args, ret |-> PyNone, pre |-> << >>]

\* the arguments: self.classes, the row of predict_log_proba (one score per
\* class) and config['number_of_options']
MostProbableInputs ==
    { Pending("input", << cls, scores, k >>) :
        cls \in ClassLists,
        scores \in UNION { [1..n -> 0..MaxScore] : n \in 1..MaxClasses },
        k \in 0..MaxOptions }

InitClasses ==
    /\ ConstructedFrom({ << >> }, { << >> }, StoresOf({ << << >>, << >> >> }),
                       { c \in MostProbableInputs :
                           Len(c.args[1]) = Len(c.args[2]) })
    /\ ~emulate

\* the call self._most_probable_classes(classes)
MostProbableClasses ==
    /\ pc = "idle"
    /\ call.op = "input"
    /\ classes_shown' = MostProbableOf(call.args[1], call.args[2], call.args[3])
    /\ call' = [call EXCEPT !.op = "_most_probable_classes"]
    /\ UNCHANGED << pc, emulate, unlabeled_corpus, user_corpus, user_vectors,
                    user_targets, new_instances, fit_X, fit_y, params, train_runs,
                    em_runs, user_features, max_iterations, it, result,
                    new_index, class_number, feature_numbers, e_prediction,
                    ret, hist, filename, files, em >>

SpecClasses == InitClasses /\ [][MostProbableClasses]_vars

\* the position of a class name in the class list, 1-based
PositionIn(cls, name) == CHOOSE i \in 1..Len(cls) : cls[i] = name

\* the positions of the classes by descending score, equal scores by
\* ascending position
Ranking(scores) ==
    CHOOSE q \in Perms(Len(scores)) :
        \A i, j \in 1..Len(scores) :
            i < j => \/ scores[q[i]] > scores[q[j]]
                     \/ (scores[q[i]] = scores[q[j]] /\ q[i] < q[j])

\* C17: the last element of the list is a class of minimal score, and the
\* list has k + 1 elements when there are at least k classes.
C17_LastIsLowestScoring ==
    call.op = "_most_probable_classes" =>
        LET cls == call.args[1]
            scores == call.args[2]
            k == call.args[3]
            last == PositionIn(cls, classes_shown[Len(classes_shown)])
        IN  /\ \A j \in 1..Len(cls) : scores[last] <= scores[j]
            /\ Len(cls) >= k => Len(classes_shown) = k + 1

\* C18: the first k elements of the list are the k classes of highest
\* score in descending order of score, classes of equal score in ascending
\* order of class index.
C18_TopKDescendingTiesAscending ==
    call.op = "_most_probable_classes" =>
        LET cls == call.args[1]
            scores == call.args[2]
            k == IF call.args[3] < Len(cls) THEN call.args[3] ELSE Len(cls)
        IN  \A i \in 1..k : classes_shown[i] = cls[Ranking(scores)[i]]

----------------------------------------------------------------------------
(* Corpus.split applied to the corpus of src/test_corpus.py *)

\* str(index) for the indexes of a small corpus
StrOf == [n \in 0..9 |->
            CASE n = 0 -> "0" [] n = 1 -> "1" [] n = 2 -> "2" [] n = 3 -> "3"
              [] n = 4 -> "4" [] n = 5 -> "5" [] n = 6 -> "6" [] n = 7 -> "7"
              [] n = 8 -> "8" [] n = 9 -> "9"]

\* setUp: a corpus of size rows, row index holding the instance [index]
\* and the target str(index)
RECURSIVE setUp(_)
setUp(size) ==
    IF size = 0 THEN << >>
    ELSE add_instance(setUp(size - 1), << size - 1 >>,
                      << PyStr(StrOf[size - 1]) >>, PyNone)

\* the lists of partition sizes split is called with
PartitionLists ==
    UNION { [1..n -> 0..(MaxCorpus + 1)] : n \in 0..MaxParts }

\* a split that refuses sizes that use the corpus up
SplitRefusesAtLength(corpus, partitions) ==
    SumSeq(partitions) >= CorpusLen(corpus)

\* split returns null when the sizes sum exceeds the corpus length
SplitRefuses(corpus, partitions) == SumSeq(partitions) > CorpusLen(corpus)

\* rows drawn with repetition
SplitOrdersRepeating(n) == [1..n -> 1..n]

\* the orders split may draw the rows of a corpus of n rows in
SplitOrders(n) == Perms(n)

\* the sub-corpora cut from the rows taken in order q: the j-th holds the
\* next partitions[j] rows, each with its own targets
SubCorpora(corpus, partitions, q) ==
    [j \in 1..Len(partitions) |->
        [i \in 1..partitions[j] |->
            corpus[q[SumSeq(SubSeq(partitions, 1, j - 1)) + i]]]]

\* corpus.split(partitions): None, or one of the lists of sub-corpora
split(corpus, partitions) ==
    IF SplitRefuses(corpus, partitions)
    THEN { PyNone }
    ELSE { [t |-> "list", s |-> "", n |-> 0,
            l |-> SubCorpora(corpus, partitions, q)] :
           q \in SplitOrders(CorpusLen(corpus)) }

InitSplit ==
    /\ ConstructedFrom({ << >> }, { setUp(size) : size \in 0..MaxCorpus },
                       StoresOf({ << << >>, << >> >> }),
                       { Pending("input", << partitions >>) :
                           partitions \in PartitionLists })
    /\ ~emulate

\* the call self.corpus.split(partitions)
Split ==
    /\ pc = "idle"
    /\ call.op = "input"
    /\ \E value \in split(user_corpus, call.args[1]) :
         call' = [call EXCEPT !.op = "split", !.ret = value,
                              !.pre = [corpus |-> user_corpus]]
    /\ UNCHANGED << pc, emulate, unlabeled_corpus, user_corpus, user_vectors,
                    user_targets, new_instances, fit_X, fit_y, params, train_runs,
                    em_runs, user_features, max_iterations, it, result,
                    new_index, classes_shown, class_number, feature_numbers,
                    e_prediction, ret, hist, filename, files, em >>

SpecSplit == InitSplit /\ [][Split]_vars

\* the (instance, primary target) pairs of a corpus
Pairs(corpus) ==
    { << corpus[i].instance, primary_target(corpus, i - 1) >> :
        i \in 1..Len(corpus) }

\* C19: for sizes summing to at most the corpus length, split returns one
\* sub-corpus per size, in order, each of the requested size, pairwise
\* disjoint, every (instance, primary target) pair being a pair of the
\* corpus, the target still being str of the instance's value.
C19_SplitSizesAndPairing ==
    (call.op = "split" /\ SumSeq(call.args[1]) <= Len(user_corpus)) =>
        LET partitions == call.args[1]
            parts == call.ret.l
        IN  /\ call.ret.t = "list"
            /\ Len(parts) = Len(partitions)
            /\ \A j \in 1..Len(parts) :
                  /\ Len(parts[j]) = partitions[j]
                  /\ Cardinality(Pairs(parts[j])) = partitions[j]
                  /\ Pairs(parts[j]) \subseteq Pairs(user_corpus)
                  /\ \A pair \in Pairs(parts[j]) :
                        PyStr(StrOf[pair[1][1]]) = pair[2]
            /\ \A j, k \in 1..Len(parts) :
                  j # k => Pairs(parts[j]) \cap Pairs(parts[k]) = {}

C19_Witness ==
    /\ call.op = "split"
    /\ call.ret.t = "list"
    /\ Len(call.args[1]) = MaxParts
    /\ Len(user_corpus) = MaxCorpus
    /\ SumSeq(call.args[1]) = MaxCorpus
    /\ \A j \in 1..MaxParts : call.args[1][j] > 0
    /\ call.ret.l[1][1].instance = << MaxCorpus - 1 >>

\* C20: split returns None exactly when the sizes sum to more than the
\* corpus length, and the corpus is then as it was.
C20_SplitNoneIffTooBig ==
    call.op = "split" =>
        /\ call.ret.t = "None" <=> SumSeq(call.args[1]) > Len(user_corpus)
        /\ call.ret.t = "None" => user_corpus = call.pre.corpus

C20_Witness ==
    /\ call.op = "split"
    /\ call.ret.t = "None"
    /\ Len(call.args[1]) = MaxParts
    /\ Len(user_corpus) = MaxCorpus
    /\ SumSeq(call.args[1]) = MaxCorpus + 1

----------------------------------------------------------------------------
(* BaseDiscreteNB.fit applied to a fitted classifier (src/em_bayes.py) *)

\* the rows and the labels fit is called with
FitRows == { << 1, 0, 0 >>, << 0, 0, 1 >> }
FitLabels == { PyStr("A"), PyStr("B"), PyStr("C") }

\* non-empty lists of at most MaxRows elements of S
ListsOf(S) == UNION { [1..n -> S] : n \in 1..MaxRows }

\* what fit raises
ValueError == [t |-> "ValueError", s |-> "", n |-> 0]

\* fit: `if X.shape[0] != Y.shape[0]`
ShapesDiffer(X, y) == Len(X) # Len(y)

\* fit(X, y) on the classifier self: whether it raised, and the classifier
\* it leaves; _label_1ofK has assigned self._classes when the shapes are
\* compared
fit(self, X, y) ==
    LET labeled == [self EXCEPT !._classes = _label_1ofK(y)]
    IN  IF ShapesDiffer(X, y)
        THEN [raised |-> TRUE, self |-> labeled]
        ELSE [raised |-> FALSE, self |-> _fit1ofK(labeled, X, y)]

InitFit ==
    /\ ConstructedFrom({ << >> }, { << >> }, StoresOf({ << << >>, << >> >> }),
                       { Pending("input", << X, y >>) :
                           X \in ListsOf(FitRows), y \in ListsOf(FitLabels) })
    /\ ~emulate

\* the call clf.fit(X, y)
Fit ==
    /\ pc = "idle"
    /\ call.op = "input"
    /\ LET done == fit(params, call.args[1], call.args[2])
       IN  /\ params' = done.self
           /\ fit_X' = IF done.raised THEN fit_X ELSE call.args[1]
           /\ fit_y' = IF done.raised THEN fit_y ELSE call.args[2]
           /\ call' = [call EXCEPT !.op = "fit",
                                   !.ret = IF done.raised THEN ValueError ELSE PyNone,
                                   !.pre = [params |-> params]]
    /\ UNCHANGED << pc, emulate, unlabeled_corpus, user_corpus, user_vectors,
                    user_targets, new_instances, train_runs, em_runs,
                    user_features, max_iterations, it, result, new_index,
                    classes_shown, class_number, feature_numbers, e_prediction,
                    ret, hist, filename, files, em >>

SpecFit == InitFit /\ [][Fit]_vars

\* C21: fit called with X and y of different lengths raises, and the
\* classifier (class set, class frequencies, feature counts) is exactly as
\* it was before the call.
C21_FailedFitLeavesModel ==
    (call.op = "fit" /\ Len(call.args[1]) # Len(call.args[2])) =>
        /\ call.ret = ValueError
        /\ params = call.pre.params

----------------------------------------------------------------------------
(* Floating-point values of the classifier (src/em_bayes.py).  A value is a
   ratio num/den of naturals or one of the IEEE specials; a log-probability
   is held as the ratio it is the logarithm of, so that log and exp lose
   nothing and the specials follow IEEE arithmetic. *)

RECURSIVE Gcd(_, _)
Gcd(a, b) == IF b = 0 THEN a ELSE Gcd(b, a % b)

RECURSIVE Power(_, _)
Power(b, e) == IF e = 0 THEN 1 ELSE b * Power(b, e - 1)

Ratio(num, den) ==
    [k |-> "fin", num |-> num \div Gcd(num, den), den |-> den \div Gcd(num, den)]
NaN == [k |-> "nan", num |-> 0, den |-> 1]
PosInf == [k |-> "pinf", num |-> 0, den |-> 1]
NegInf == [k |-> "ninf", num |-> 0, den |-> 1]

\* a + b of two numbers that are not negative
Plus(a, b) ==
    IF a.k = "nan" \/ b.k = "nan" THEN NaN
    ELSE IF a.k = "pinf" \/ b.k = "pinf" THEN PosInf
    ELSE Ratio(a.num * b.den + b.num * a.den, a.den * b.den)

\* np.log(n) of a count n
np_log(n) == IF n = 0 THEN NegInf ELSE Ratio(n, 1)

\* np.log(r) of a number r that is not negative
LogOf(r) == IF r.k = "fin" /\ r.num = 0 THEN NegInf ELSE r

\* np.exp(l) of a logarithm l
np_exp(l) == IF l.k = "ninf" THEN Ratio(0, 1) ELSE l

\* a + b of two logarithms: inf - inf is nan
LogAdd(a, b) ==
    IF a.k = "nan" \/ b.k = "nan" THEN NaN
    ELSE IF { a.k, b.k } = { "ninf", "pinf" } THEN NaN
    ELSE IF a.k # "fin" THEN a
    ELSE IF b.k # "fin" THEN b
    ELSE Ratio(a.num * b.num, a.den * b.den)

\* -a of a logarithm
LogNeg(a) ==
    CASE a.k = "fin" -> Ratio(a.den, a.num)
      [] a.k = "ninf" -> PosInf
      [] a.k = "pinf" -> NegInf
      [] OTHER -> NaN

LogSub(a, b) == LogAdd(a, LogNeg(b))

\* x * a of a count x and a logarithm a: 0 * inf is nan
LogTimes(x, a) ==
    IF a.k = "nan" THEN NaN
    ELSE IF x = 0 THEN (IF a.k = "fin" THEN Ratio(1, 1) ELSE NaN)
    ELSE IF a.k = "fin" THEN Ratio(Power(a.num, x), Power(a.den, x))
    ELSE a

\* a < b of two logarithms, neither nan
LogLess(a, b) ==
    CASE a.k = "pinf" -> FALSE
      [] a.k = "ninf" -> b.k # "ninf"
      [] OTHER -> \/ b.k = "pinf"
                  \/ b.k = "fin" /\ a.num * b.den < b.num * a.den

\* np.log(1 - np.exp(l)) of a logarithm l
Log1mExp(l) ==
    CASE l.k = "ninf" -> Ratio(1, 1)
      [] l.k = "fin" /\ l.num < l.den -> Ratio(l.den - l.num, l.den)
      [] l.k = "fin" /\ l.num = l.den -> NegInf
      [] OTHER -> NaN

\* the sum of a sequence of numbers, and of a sequence of logarithms
RECURSIVE SumOf(_)
SumOf(s) == IF s = << >> THEN Ratio(0, 1) ELSE Plus(Head(s), SumOf(Tail(s)))
RECURSIVE LogSumOf(_)
LogSumOf(s) == IF s = << >> THEN Ratio(1, 1) ELSE LogAdd(Head(s), LogSumOf(Tail(s)))

\* arr.max() of a sequence of logarithms: nan if one of them is
ArrMax(arr) ==
    IF \E i \in 1..Len(arr) : arr[i].k = "nan" THEN NaN
    ELSE arr[CHOOSE i \in 1..Len(arr) : \A j \in 1..Len(arr) : ~LogLess(arr[i], arr[j])]

\* sklearn.utils.extmath.logsumexp of a row: vmax = arr.max(),
\* log(sum(exp(arr - vmax))) + vmax
logsumexp(arr) ==
    LET vmax == ArrMax(arr)
    IN  LogAdd(LogOf(SumOf([i \in 1..Len(arr) |-> np_exp(LogSub(arr[i], vmax))])), vmax)

----------------------------------------------------------------------------
(* predict_proba of the two discrete classifiers (src/em_bayes.py) *)

Variants == { "MultinomialNB", "BernoulliNB" }

\* the smoothing parameters alpha the classifiers are constructed with
Alphas == { 0, 1 }

\* the place of a label in the sorted labels
LabelRank(c) == CASE c.s = "A" -> 1 [] c.s = "B" -> 2 [] OTHER -> 3

\* the classes of a classifier in the order of labelbin.classes_
RECURSIVE SortedClasses(_)
SortedClasses(cs) ==
    IF cs = {} THEN << >>
    ELSE LET c == CHOOSE c \in cs : \A d \in cs : LabelRank(c) <= LabelRank(d)
         IN  << c >> \o SortedClasses(cs \ { c })

\* binarize(X, threshold=0.0)
binarize(X) == [i \in 1..Len(X) |-> [f \in 1..Len(X[i]) |-> IF X[i][f] > 0 THEN 1 ELSE 0]]

\* class_log_prior_ with fit_prior: np.log(y_freq) - np.log(y_freq.sum())
class_log_prior_(self) ==
    LET cs == SortedClasses(self._classes)
    IN  [c \in self._classes |->
            LogSub(np_log(self.y_freq[c]),
                   np_log(SumSeq([i \in 1..Len(cs) |-> self.y_freq[cs[i]]])))]

\* feature_log_prob_: np.log(N_c_i + alpha) - np.log(N_c + alpha * X.shape[1])
feature_log_prob_(self, alpha) ==
    [c \in self._classes |-> [f \in 1..NumFeatures |->
        LogSub(np_log(self.N_c_i[c][f] + alpha),
               np_log(self.N_c[c] + alpha * NumFeatures))]]

\* safe_sparse_dot(x, w.T) of one row x: a dense row multiplies every
\* coefficient, a sparse row only those of its stored (nonzero) entries
safe_sparse_dot(sparse, x, w) ==
    LogSumOf([f \in 1..Len(x) |->
                IF sparse /\ x[f] = 0 THEN Ratio(1, 1) ELSE LogTimes(x[f], w[f])])

\* _joint_log_likelihood of one row x for class c
_joint_log_likelihood(variant, self, alpha, sparse, x, c) ==
    LET coef_ == feature_log_prob_(self, alpha)[c]
        intercept_ == class_log_prior_(self)[c]
        neg_prob == [f \in 1..NumFeatures |-> Log1mExp(coef_[f])]
        b == binarize(<< x >>)[1]
        X_neg_prob == LogSub(LogSumOf(neg_prob), safe_sparse_dot(sparse, b, neg_prob))
    IN  IF variant = "MultinomialNB"
        THEN LogAdd(safe_sparse_dot(sparse, x, coef_), intercept_)
        ELSE LogAdd(LogAdd(safe_sparse_dot(sparse, b, coef_), X_neg_prob), intercept_)

\* predict_log_proba: jll - logsumexp(jll, axis=1), a row per sample
predict_log_proba(variant, self, alpha, sparse, X) ==
    LET cs == SortedClasses(self._classes)
        jll == [i \in 1..Len(X) |-> [j \in 1..Len(cs) |->
                    _joint_log_likelihood(variant, self, alpha, sparse, X[i], cs[j])]]
    IN  [i \in 1..Len(X) |-> [j \in 1..Len(cs) |->
            LogSub(jll[i][j], logsumexp(jll[i]))]]

\* predict_proba: np.exp(self.predict_log_proba(X))
predict_proba(variant, self, alpha, sparse, X) ==
    LET lp == predict_log_proba(variant, self, alpha, sparse, X)
    IN  [i \in 1..Len(X) |-> [j \in 1..Len(lp[i]) |-> np_exp(lp[i][j])]]

\* the rows predict_proba is called with
PredictRows == { << 1, 0, 0 >>, << 0, 1, 0 >>, << 2, 0, 1 >> }

\* a classifier of either variant fitted on X, y with at least two classes,
\* and the rows to predict
PredictInputs ==
    { Pending("input", << variant, alpha, sparse, X, y, T >>) :
        variant \in Variants, alpha \in Alphas, sparse \in BOOLEAN,
        X \in [1..MaxRows -> FitRows],
        y \in { l \in [1..MaxRows -> FitLabels] : Cardinality(_label_1ofK(l)) > 1 },
        T \in [1..1 -> PredictRows] }

InitPredict ==
    /\ ConstructedFrom({ << >> }, { << >> }, StoresOf({ << << >>, << >> >> }),
                       PredictInputs)
    /\ ~emulate

\* clf.fit(X, y) followed by clf.predict_proba(T)
PredictProba ==
    /\ pc = "idle"
    /\ call.op = "input"
    /\ LET variant == call.args[1]
           alpha == call.args[2]
           sparse == call.args[3]
           X == IF variant = "BernoulliNB" THEN binarize(call.args[4]) ELSE call.args[4]
           clf == _fit1ofK(Unfitted, X, call.args[5])
       IN  /\ params' = clf
           /\ fit_X' = call.args[4]
           /\ fit_y' = call.args[5]
           /\ call' = [call EXCEPT !.op = "predict_proba",
                                   !.ret = predict_proba(variant, clf, alpha, sparse,
                                                         call.args[6])]
    /\ UNCHANGED << pc, emulate, unlabeled_corpus, user_corpus, user_vectors,
                    user_targets, new_instances, train_runs, em_runs,
                    user_features, max_iterations, it, result, new_index,
                    classes_shown, class_number, feature_numbers, e_prediction,
                    ret, hist, filename, files, em >>

SpecPredict == InitPredict /\ [][PredictProba]_vars

\* the row sums to 1
SumsToOne(row) == SumOf(row) = Ratio(1, 1)

\* C23: every row of predict_proba sums to 1, for both classifier variants.
C23_ProbaRowsSumToOne ==
    call.op = "predict_proba" =>
        \A i \in 1..Len(call.ret) : SumsToOne(call.ret[i])


----------------------------------------------------------------------------
(* SemisupervisedNB.fit (src/em_bayes.py): the EM loop over a MultinomialNB
   with the default alpha = 1.0.  The label matrix holds its probabilities
   in units of 1/Precision, and the counts of a fit on it are in the same
   unit. *)

\* the target value of an unlabeled sample
Unlabeled == PyInt(-1)

\* alpha = 1.0 in the unit of the counts
EMAlpha == 1 * Precision

\* tol, as the ratio it is the logarithm of: 0, log(28/25) and log(6/5)
Tols == { Ratio(1, 1), Ratio(28, 25), Ratio(6, 5) }

\* labeled = np.where(y != -1)[0]
labeled(y) == { i \in 1..Len(y) : y[i] # Unlabeled }

\* s[I, :], the elements of s at the indexes I, in order
RECURSIVE RowsAt(_, _)
RowsAt(s, I) ==
    IF s = << >> THEN << >>
    ELSE RowsAt(SubSeq(s, 1, Len(s) - 1), I)
         \o (IF Len(s) \in I THEN << s[Len(s)] >> ELSE << >>)

\* the classes of y: its sorted labels, -1 left out
EMClasses(y) == SortedClasses(_label_1ofK(y) \ { Unlabeled })

\* Y = clf._label_1ofK(y): a row of the one-hot matrix per sample, all
\* zero for an unlabeled sample
OneHot(y) ==
    [i \in 1..Len(y) |-> [j \in 1..Len(EMClasses(y)) |->
        IF y[i] = EMClasses(y)[j] THEN Precision ELSE 0]]

\* clf._fit1ofK(X, Y, ...) on a label matrix Y whose columns are the
\* classes cs
_fit1ofKMatrix(X, Y, cs) ==
    LET col(c) == CHOOSE j \in 1..Len(cs) : cs[j] = c
        set == { cs[j] : j \in 1..Len(cs) }
        N_c_i == [c \in set |-> [f \in 1..NumFeatures |->
                    SumSeq([r \in 1..Len(X) |-> Y[r][col(c)] * X[r][f]])]]
    IN  [_classes |-> set,
         y_freq |-> [c \in set |-> SumSeq([r \in 1..Len(X) |-> Y[r][col(c)]])],
         N_c |-> [c \in set |-> SumSeq(N_c_i[c])],
         N_c_i |-> N_c_i]

\* the fit before the loop: clf._fit1ofK(X[labeled, :], Y[labeled, :], ...)
InitialFit(X, y) ==
    _fit1ofKMatrix(RowsAt(X, labeled(y)), RowsAt(OneHot(y), labeled(y)), EMClasses(y))

\* a probability as the label matrix holds it: the nearest multiple of
\* 1/Precision
Rounded(r) == (2 * r.num * Precision + r.den) \div (2 * r.den)

\* clf.predict_proba(X) as the label matrix holds it
EStep(clf, X) ==
    LET P == predict_proba("MultinomialNB", clf, EMAlpha, FALSE, X)
    IN  [i \in 1..Len(P) |-> [j \in 1..Len(P[i]) |-> Rounded(P[i][j])]]

\* |a| of a logarithm
LogAbs(a) ==
    CASE a.k = "fin" -> IF a.num >= a.den THEN a ELSE Ratio(a.den, a.num)
      [] a.k = "nan" -> NaN
      [] OTHER -> PosInf

\* scipy.linalg.norm(v, 1) of a vector: sum(abs(v))
norm_vector(v) == LogSumOf([i \in 1..Len(v) |-> LogAbs(v[i])])

\* scipy.linalg.norm(a, 1) of a matrix: max(sum(abs(a), axis=0))
norm_matrix(a) ==
    ArrMax([f \in 1..Len(a[1]) |-> LogSumOf([c \in 1..Len(a) |-> LogAbs(a[c][f])])])

\* old_coef - clf.coef_ and old_intercept - clf.intercept_, old being the
\* classifier the snapshot was copied from
CoefDiff(old, clf) ==
    LET cs == SortedClasses(clf._classes)
    IN  [j \in 1..Len(cs) |-> [f \in 1..NumFeatures |->
            LogSub(feature_log_prob_(old, EMAlpha)[cs[j]][f],
                   feature_log_prob_(clf, EMAlpha)[cs[j]][f])]]
InterceptDiff(old, clf) ==
    LET cs == SortedClasses(clf._classes)
    IN  [j \in 1..Len(cs) |->
            LogSub(class_log_prior_(old)[cs[j]], class_log_prior_(clf)[cs[j]])]

\* d = norm(old_coef - clf.coef_, 1) + norm(old_intercept - clf.intercept_, 1)
Distance(old, clf) ==
    LogAdd(norm_matrix(CoefDiff(old, clf)), norm_vector(InterceptDiff(old, clf)))

\* the sum of the absolute values of all the entries of a matrix
norm_entries(a) == LogSumOf([c \in 1..Len(a) |-> norm_vector(a[c])])

\* the entrywise L1 distance of the parameters
L1Distance(old, clf) ==
    LogAdd(norm_entries(CoefDiff(old, clf)), norm_vector(InterceptDiff(old, clf)))

\* d < tol, with tol = self.tol * n_features; nothing is below a nan
Below(d, tol) == d.k # "nan" /\ LogLess(d, LogTimes(NumFeatures, tol))

\* what the NameError of an unbound local is raised as
NameError == [t |-> "NameError", s |-> "", n |-> 0]

\* the targets fit is called with: a sample of each of the two classes,
\* followed by unlabeled samples
EMTargets ==
    { ab \o [i \in 1..k |-> Unlabeled] :
        ab \in { << PyStr("A"), PyStr("B") >>, << PyStr("B"), PyStr("A") >> },
        k \in 0..MaxUnlabeled }

\* SemisupervisedNB(MultinomialNB(), n_iter, relabel_all, tol).fit(X, y)
EMInputs ==
    { Pending("input", << relabel_all, n_iter, tol, X, y >>) :
        relabel_all \in BOOLEAN, n_iter \in 0..MaxIter, tol \in Tols,
        X \in UNION { [1..n -> FitRows] : n \in 2..(2 + MaxUnlabeled) },
        y \in EMTargets }

InitEM ==
    /\ ConstructedFrom({ << >> }, { << >> }, StoresOf({ << << >>, << >> >> }),
                       { c \in EMInputs : Len(c.args[4]) = Len(c.args[5]) })
    /\ ~emulate

\* fit up to its loop: the one-hot matrix, the fit on the labeled rows and
\* the snapshot of its parameters
EMFit ==
    /\ pc = "idle"
    /\ call.op = "input"
    /\ LET X == call.args[4]
           y == call.args[5]
           clf == InitialFit(X, y)
       IN  /\ params' = clf
           /\ fit_X' = RowsAt(X, labeled(y))
           /\ fit_y' = RowsAt(OneHot(y), labeled(y))
           /\ em' = [NoEM EXCEPT !.Y = OneHot(y), !.old = clf, !.fits = 1]
    /\ pc' = "em_for"
    /\ UNCHANGED << emulate, unlabeled_corpus, user_corpus, user_vectors,
                    user_targets, new_instances, train_runs, em_runs,
                    user_features, max_iterations, it, result, new_index,
                    classes_shown, class_number, feature_numbers, e_prediction,
                    ret, hist, filename, files, call >>

\* the E step of an iteration: with relabel_all the label matrix is replaced
\* by predict_proba(X); without it Y_unlabeled and X_unlabeled, which are
\* bound only `if self.relabel_all`, are read unbound
EMExpectation ==
    /\ pc = "em_for"
    /\ em.i < call.args[2]
    /\ IF call.args[1]
       THEN /\ em' = [em EXCEPT !.Y = EStep(params, call.args[4]),
                                !.esteps = @ + 1]
            /\ pc' = "em_m"
            /\ UNCHANGED call
       ELSE /\ em' = [em EXCEPT !.outcome = "NameError"]
            /\ pc' = "idle"
            /\ call' = [call EXCEPT !.op = "SemisupervisedNB.fit", !.ret = NameError]
    /\ UNCHANGED << emulate, unlabeled_corpus, user_corpus, user_vectors,
                    user_targets, new_instances, fit_X, fit_y, params,
                    train_runs, em_runs, user_features, max_iterations, it,
                    result, new_index, classes_shown, class_number,
                    feature_numbers, e_prediction, ret, hist, filename, files >>

\* the snapshot the next iteration compares with
NextSnapshotKept(old, clf) == old
NextSnapshot(old, clf) == clf

\* the M step of an iteration, and its convergence check: break, or replace
\* the snapshot and go on
EMMaximization ==
    /\ pc = "em_m"
    /\ LET clf == _fit1ofKMatrix(call.args[4], em.Y, EMClasses(call.args[5]))
           converged == Below(Distance(em.old, clf), call.args[3])
       IN  /\ params' = clf
           /\ fit_X' = call.args[4]
           /\ fit_y' = em.Y
           /\ em' = [em EXCEPT
                        !.fits = @ + 1,
                        !.trace = Append(@, [old |-> em.old, Y |-> em.Y, clf |-> clf]),
                        !.old = IF converged THEN @ ELSE NextSnapshot(@, clf),
                        !.i = IF converged THEN @ ELSE @ + 1]
           /\ pc' = IF converged THEN "em_break" ELSE "em_for"
    /\ UNCHANGED << emulate, unlabeled_corpus, user_corpus, user_vectors,
                    user_targets, new_instances, train_runs, em_runs,
                    user_features, max_iterations, it, result, new_index,
                    classes_shown, class_number, feature_numbers, e_prediction,
                    ret, hist, filename, files, call >>

\* `return self`, after the break or when xrange(self.n_iter) is exhausted
EMReturn ==
    /\ \/ pc = "em_break"
       \/ pc = "em_for" /\ em.i >= call.args[2]
    /\ em' = [em EXCEPT !.outcome = IF pc = "em_break" THEN "break" ELSE "exhausted"]
    /\ pc' = "idle"
    /\ call' = [call EXCEPT !.op = "SemisupervisedNB.fit"]
    /\ UNCHANGED << emulate, unlabeled_corpus, user_corpus, user_vectors,
                    user_targets, new_instances, fit_X, fit_y, params,
                    train_runs, em_runs, user_features, max_iterations, it,
                    result, new_index, classes_shown, class_number,
                    feature_numbers, e_prediction, ret, hist, filename, files >>

NextEM == EMFit \/ EMExpectation \/ EMMaximization \/ EMReturn

SpecEM == InitEM /\ [][NextEM]_vars

\* a step of the call, seen on pc alone: every step of NextEM moves pc, and
\* one is possible wherever the call has not ended
EMStep ==
    /\ pc = "idle" => call.op = "input"
    /\ pc' \in { "idle", "em_for", "em_m", "em_break" }

\* the call runs to its end: no step of it waits for anything
SpecEMFair == SpecEM /\ WF_pc(EMStep)

----------------------------------------------------------------------------
(* Properties of instance_bootstrap, checked under SpecInstance *)

\* the pool, the labeled partition and the session are as at the call
AsAtCall ==
    /\ unlabeled_corpus = hist.start.pool
    /\ user_corpus = hist.start.user
    /\ user_vectors = hist.start.vectors
    /\ user_targets = hist.start.targets

\* the pool, the labeled partition, the session and the count are as they
\* were when the last query was issued
AsAtQuery ==
    /\ unlabeled_corpus = hist.before.pool
    /\ user_corpus = hist.before.user
    /\ user_vectors = hist.before.vectors
    /\ user_targets = hist.before.targets
    /\ result = hist.before.result

\* the loop body has just been left: no query is pending
IBBodyLeft == pc \in {"ib_loop", "done"}

\* C1 as claimed: whenever the first answer of the oracle is 'stop', the
\* loop returns 0 and pool, labeled partition and session are as at the
\* call.
C1_FirstAnswerStop_Original ==
    (pc = "done" /\ hist.first = "stop") => (ret.v = 0 /\ AsAtCall)

\* C1 amended: when the oracle is asked in the first iteration of the loop
\* and answers 'stop', the loop returns 0 and pool, labeled partition and
\* session are as at the call.
C1_StopInFirstIteration ==
    (pc = "done" /\ hist.first = "stop" /\ it = 1) => (ret.v = 0 /\ AsAtCall)

C1_Witness ==
    /\ pc = "done"
    /\ hist.first = "stop"
    /\ it = 1
    /\ Len(unlabeled_corpus) = MaxPool
    /\ ret.done

\* C2: a real-label answer takes exactly the queried row out of the pool
\* and appends it to the labeled partition with the answer as first target;
\* at return the count is the number of rows moved and the two corpora
\* together are as large as at the call.
C2_LabelMovesQueriedRow ==
    /\ (pc = "ib_loop" /\ hist.last = "label") =>
          LET row == hist.before.pool[new_index + 1]
          IN  /\ unlabeled_corpus = RemoveAt(hist.before.pool, new_index + 1)
              /\ user_corpus =
                   Append(hist.before.user,
                          [instance |-> row.instance,
                           targets |-> << hist.value >> \o row.targets,
                           representation |-> row.representation])
    /\ pc = "done" =>
          /\ ret.v = Len(hist.start.pool) - Len(unlabeled_corpus)
          /\ ret.v = Len(user_corpus) - Len(hist.start.user)
          /\ Len(unlabeled_corpus) + Len(user_corpus)
               = Len(hist.start.pool) + Len(hist.start.user)

C2_Witness ==
    /\ pc = "done"
    /\ ret.v = MaxPool
    /\ hist.last = "label"
    /\ ~emulate
    /\ Len(user_corpus[Len(user_corpus)].targets) = 2

\* the refit a 'train' answer forces has run on the bulk corpus and the
\* session, and the EM step after it
RefitSinceQuery ==
    /\ train_runs = hist.before.runs + 1
    /\ em_runs = hist.before.ems + 1
    /\ fit_X = training_vectors \o user_vectors
    /\ fit_y = training_target \o user_targets

\* C3 as claimed: a 'train' answer refits, consumes no instance, and the
\* loop goes on to another query instead of terminating.
C3_TrainContinues_Original ==
    (IBBodyLeft /\ hist.last = "train") =>
        (RefitSinceQuery /\ AsAtQuery /\ pc # "done")

\* C3 amended: a 'train' answer refits, consumes no instance, and the loop
\* goes back to its test; it returns there only when that iteration was the
\* last one max_iterations allows.
C3_TrainRefitsAndLoops ==
    (IBBodyLeft /\ hist.last = "train") =>
        /\ RefitSinceQuery
        /\ AsAtQuery
        /\ pc = "done" => (BudgetTruthy(max_iterations) /\ it = max_iterations.v)

C3_Witness ==
    /\ pc = "ib_ask"
    /\ hist.first = "train"
    /\ hist.asked = 2
    /\ em_runs = 1

\* C4: an answer that is neither 'stop', 'train' nor a valid label leaves
\* pool, labeled partition, session and count alone and the same query is
\* asked again.
C4_InvalidAnswerReprompts ==
    hist.last = "invalid" => (pc = "ib_ask" /\ AsAtQuery)

\* C6: no query is issued between the recording of a label and the end of
\* a retrain that includes it.
C6_RetrainBeforeNextQuery == pc = "ib_ask" => ~hist.stale

\* C7: no query is issued on an empty pool, and with max_iterations given
\* the loop body runs at most max_iterations times.
C7_BudgetBoundsIterations ==
    /\ ~hist.empty_query
    /\ max_iterations.given => hist.cycles <= max_iterations.v

----------------------------------------------------------------------------
(* Properties of feature_bootstrap, checked under SpecFeature *)

\* the round has just been left: no query is pending
FBRoundLeft == pc \in {"fb_loop", "done", "raised"}

\* C5: an invalid or empty answer at either prompt is skipped: nothing is
\* recorded, no retrain runs, the count stays, and the loop goes on to a
\* new round.
C5_InvalidAnswerSkipped ==
    (FBRoundLeft /\ hist.last = "invalid") =>
        /\ pc = "fb_loop"
        /\ hist.recorded = hist.before_recorded
        /\ train_runs = hist.before.runs
        /\ result = hist.before.result

\* C8: with a (positive) max_iterations given, the cycle runs at most
\* max_iterations times whatever the oracle answers.
C8_BudgetBoundsCycles ==
    BudgetTruthy(max_iterations) => hist.cycles <= max_iterations.v

----------------------------------------------------------------------------
(* Properties of the controller, checked under SpecBootstrap *)

\* C10: _process_prediction(instance, prediction) appends exactly that pair
\* at the end of the session, retrains on the bulk corpus followed by the
\* whole session, and returns True.
C10_ProcessPredictionAppendsAndRetrains ==
    (pc = "bs_loop" /\ hist.answers > 0) =>
        /\ user_vectors = Append(hist.before.vectors,
                                 unlabeled_corpus[new_index + 1].instance)
        /\ user_targets = Append(hist.before.targets, hist.value)
        /\ fit_X = training_vectors \o user_vectors
        /\ fit_y = training_target \o user_targets
        /\ train_runs = hist.before.runs + 1
        /\ hist.processed = TRUE

C10_Witness ==
    /\ pc = "bs_loop"
    /\ Len(user_vectors) = MaxSession + 1
    /\ Len(fit_X) = Len(training_vectors) + MaxSession + 1
    /\ hist.processed

\* the vectors recorded in the session since the driver was called
LabeledInRun ==
    { user_vectors[i] : i \in (Len(hist.start.vectors) + 1)..Len(user_vectors) }

\* the instances get_next_instance may return
PoolInstances == { unlabeled_corpus[i].instance : i \in 1..Len(unlabeled_corpus) }

\* C12: once the oracle has labeled an instance of the pool, the instance
\* is no longer in the pool, so no later selection returns it.
C12_LabeledRowsLeaveThePool ==
    hist.last = "label" => LabeledInRun \cap PoolInstances = {}

----------------------------------------------------------------------------
(* Properties of the session state, checked under SpecRun *)

\* s is a prefix of t
IsPrefix(s, t) == Len(s) <= Len(t) /\ SubSeq(t, 1, Len(s)) = s

\* C11: in every step of a run, the session lists before the step are
\* prefixes of the session lists after it; every fit is on the bulk
\* training corpus, unmodified, followed by session rows.
C11_SessionOnlyGrows ==
    /\ [][/\ IsPrefix(user_vectors, user_vectors')
          /\ IsPrefix(user_targets, user_targets')]_vars
    /\ [](/\ IsPrefix(training_vectors, fit_X)
          /\ IsPrefix(training_target, fit_y))

C11_Witness ==
    /\ pc = "bs_loop"
    /\ call.op = "save_session"
    /\ call.ret = PyTrue
    /\ Len(call.pre.vectors) = 2
    /\ Len(user_vectors) = 3
    /\ train_runs = 2

----------------------------------------------------------------------------
(* Properties of the controller's operations, checked under SpecController *)

\* the session is as it was when the last operation was called
SessionAsAtCall ==
    /\ user_vectors = call.pre.vectors
    /\ user_targets = call.pre.targets

\* C13: save_session returns False and writes nothing when the session is
\* empty or no destination is given, leaving session and files as they
\* were; it returns True only for a non-empty session and a destination.
C13_SaveSessionRefusesEmpty ==
    call.op = "save_session" =>
        /\ (call.pre.vectors = << >> \/ call.args[1] = "") =>
              /\ call.ret = PyFalse
              /\ files = call.pre.files
              /\ SessionAsAtCall
        /\ call.ret = PyTrue =>
              /\ call.pre.vectors # << >>
              /\ call.args[1] # ""
        /\ call.ret \in {PyTrue, PyFalse}

C13_Witness ==
    /\ call.op = "save_session"
    /\ call.ret = PyFalse
    /\ call.args[1] = "s"
    /\ call.pre.vectors = << >>
    /\ files["s"] # NoFile

\* C14: load_session without a session name returns False and leaves the
\* session alone; with a name it returns True and the session is exactly
\* the pair save_session last wrote to that file, whatever was held before.
C14_LoadReplacesSession ==
    call.op = "load_session" =>
        /\ filename = "" => (call.ret = PyFalse /\ SessionAsAtCall)
        /\ call.ret = PyTrue =>
              /\ filename # ""
              /\ << user_vectors, user_targets >> = hist.saved[filename]
        /\ call.ret = PyFalse => filename = ""

C14_Witness ==
    /\ call.op = "load_session"
    /\ call.ret = PyTrue
    /\ Len(call.pre.vectors) = 3
    /\ Len(user_vectors) = 2
    /\ hist.saved[filename] # << << <<0, 2, 0>> >>, << PyStr("A") >> >>

\* C15: the parameters a retrain leaves are those of a fit of a fresh
\* classifier on the bulk corpus followed by the session, whatever the
\* classifier held before; a retrain on the data the classifier was last
\* fitted on leaves the parameters as they were.
C15_RetrainIsFullRefit ==
    call.op = "_train" =>
        /\ params = _fit1ofK(Unfitted, training_vectors \o user_vectors,
                             training_target \o user_targets)
        /\ (call.pre.fx = fit_X /\ call.pre.fy = fit_y) =>
              params = call.pre.params

C15_Witness ==
    /\ call.op = "_train"
    /\ call.pre.op = "_train"
    /\ call.pre.fx = fit_X
    /\ Len(user_vectors) = 2
    /\ train_runs = 3
    /\ params.y_freq[PyStr("A")] = 3

\* C16: on an empty pool get_next_instance fails with an explicit
\* EmptyPoolError; on a non-empty pool it returns a row of the pool.
C16_EmptyPoolRaises ==
    call.op = "get_next_instance" =>
        /\ call.pre.pool = << >> => call.ret.t = "EmptyPoolError"
        /\ call.pre.pool # << >> =>
              /\ call.ret.t = "row"
              /\ call.ret.n \in 1..Len(call.pre.pool)

----------------------------------------------------------------------------
(* Properties of SemisupervisedNB.fit, checked under SpecEM and SpecEMFair *)

\* the call has ended, by a return or by an exception
EMEnded == call.op = "SemisupervisedNB.fit"

\* C22: fit always ends, and it ends converged (by the break) or with its
\* iterations exhausted, never by an error, after at most n_iter iterations;
\* when the iterations are exhausted the classifier holds the parameters
\* of the last M step (of the fit before the loop if there was none); for
\* both settings of relabel_all.
C22_FitEndsConvergedOrExhausted ==
    <>[](/\ EMEnded
         /\ em.outcome \in { "break", "exhausted" }
         /\ Len(em.trace) <= call.args[2]
         /\ em.outcome = "exhausted" =>
              params = IF em.trace = << >>
                       THEN InitialFit(call.args[4], call.args[5])
                       ELSE em.trace[Len(em.trace)].clf)

\* C24: with relabel_all disabled the label matrix of every M step keeps
\* the one-hot row of every labeled sample, and fit ends without an error.
C24_LabeledRowsKeptWithoutError ==
    (call.op \in { "input", "SemisupervisedNB.fit" } /\ ~call.args[1]) =>
        /\ em.outcome # "NameError"
        /\ \A t \in 1..Len(em.trace) : \A r \in labeled(call.args[5]) :
               em.trace[t].Y[r] = OneHot(call.args[5])[r]

\* the convergence check of every iteration compares with the fit just
\* before it; the loop stops at the first iteration whose distance D is
\* below the tolerance, and replaces the snapshot otherwise; after the
\* stopping iteration no E step and no fit runs
StopsAtFirstBelow(D(_, _)) ==
    LET n == Len(em.trace)
        before(t) == IF t = 1 THEN InitialFit(call.args[4], call.args[5])
                     ELSE em.trace[t - 1].clf
        below(t) == Below(D(em.trace[t].old, em.trace[t].clf), call.args[3])
    IN  /\ \A t \in 1..n : em.trace[t].old = before(t)
        /\ \A t \in 1..(n - 1) : ~below(t)
        /\ n > 0 => (below(n) <=> (pc = "em_break" \/ em.outcome = "break"))
        /\ (n > 0 /\ ~below(n)) => em.old = em.trace[n].clf
        /\ EMEnded => (em.esteps = n /\ em.fits = n + 1)

C26_AtMostNIterFits == em.fits <= call.args[2]

----------------------------------------------------------------------------
(* Who changes the shared state, checked under SpecInstance *)

\* the state the drivers share with the controller: the session lists, the
\* unlabeled pool, the labeled partition, the counter of new instances, the
\* classifier and the feature boosts
SharedState ==
    << user_vectors, user_targets, unlabeled_corpus, user_corpus,
       new_instances, fit_X, fit_y, params, user_features >>

\* a step that changes the shared state as the controller operations the
\* drivers call change it: _train followed by _expectation_maximization, or
\* handle_feature_prediction
ByControllerOperation ==
    \/ /\ _train(user_vectors, user_targets)
       /\ _expectation_maximization
       /\ UNCHANGED << user_vectors, user_targets, unlabeled_corpus,
                       user_corpus, new_instances, user_features >>
    \/ /\ \E c \in 0..(Len(classes) - 1) :
            \A d \in 1..Len(classes) : d # c + 1 => user_features'[d] = user_features[d]
       /\ _train(user_vectors, user_targets)
       /\ hist'.recorded = hist.recorded + 1
       /\ UNCHANGED << user_vectors, user_targets, unlabeled_corpus,
                       user_corpus, new_instances, em_runs >>

\* C27: every step of a driver that changes the shared state (session
\* lists, unlabeled pool, labeled partition, counters, model parameters)
\* changes it by a controller operation; the drivers mutate nothing of it
\* themselves.
C27_OnlyControllerMutates ==
    [][SharedState' # SharedState => ByControllerOperation]_vars

----------------------------------------------------------------------------
(* What feature_bootstrap hands to handle_feature_prediction, checked under
   SpecFeature *)

\* the elements of a list
Elements(s) == { s[i] : i \in 1..Len(s) }

\* C28: in every call of handle_feature_prediction by the feature loop the
\* confirmed features are among the candidates of the same call, and the
\* candidates are among the features get_next_features returned for the
\* chosen class in that round, with emulation and without.
C28_ConfirmedWithinCandidatesWithinOffered ==
    hist.recorded > 0 =>
        /\ Elements(hist.confirmed_list) \subseteq Elements(hist.candidates)
        /\ Elements(hist.candidates) \subseteq Elements(hist.offered)
        /\ hist.recorded_class = hist.offered_class
        /\ hist.subset

\* a call in emulation mode that passed a typed and an emulated feature
C28_Witness ==
    /\ emulate
    /\ hist.recorded > 0
    /\ hist.recorded = hist.before_recorded + 1
    /\ e_prediction # << >>
    /\ Elements(hist.confirmed_list) \ Elements(e_prediction) # {}

----------------------------------------------------------------------------
(* Termination of instance_bootstrap *)

\* the driver runs to its end: the call is made, every prompt is answered
\* and the loop goes on after each answer
SpecInstanceFair == SpecInstance /\ WF_vars(NextInstance)

\* this step runs the loop body on an answer, the oracle's or emulation's
AnswerProcessed ==
    \/ pc = "ib_ask"
    \/ pc = "ib_loop" /\ it' # it /\ pc' # "ib_ask"

\* the answer the step processes is neither 'stop' nor 'train'
TakenAsLabel == ~IBIsStop(hist'.value) /\ ~IBIsTrain(hist'.value)

\* C29: the instance query loop returns for every oracle that answers
\* 'train' only finitely often, with or without max_iterations; each answer
\* that is neither 'stop' nor 'train' shrinks the unlabeled pool by exactly
\* one; the returned count never exceeds the size of the pool at the call
\* nor, when a budget is given, max_iterations.
C29_InstanceLoopTerminatesWithinPool ==
    /\ <>(pc = "done")
    /\ [][(AnswerProcessed /\ TakenAsLabel) =>
            Len(unlabeled_corpus') = Len(unlabeled_corpus) - 1]_vars
    /\ [](pc = "done" =>
            /\ ret.v <= Len(hist.start.pool)
            /\ max_iterations.given => ret.v <= max_iterations.v)

====
